---- MODULE Spec2Model ----
(***************************************************************************)
(* letsraffle-api: the scheduled-draw pipeline.                            *)
(*                                                                         *)
(* The relational store holds, per draw, its status, draw_date,            *)
(* participants and DrawResult rows.  execute_scheduled_draw_task (the     *)
(* sweep) and process_draw (one Celery task per dispatch) each work in a   *)
(* session of their own: what a session reads is the committed state at    *)
(* the time of the statement, what it writes becomes visible at commit.    *)
(***************************************************************************)
EXTENDS Integers, Sequences, FiniteSets, TLC

\* ------------------------------------------------------------- bounds
NumDraws == 2
MaxPart == 3
MaxTasks == 2
MaxNow == 1
MaxIds == 4

\* ---------------------------------------------------------- constants
\* participant_count < 3 (the sweep), count < 3 (execute_draw step 3)
MinParticipants == 3

DrawIds == 1..NumDraws
PartIds == 1..MaxPart

\* DrawStatus values
ACTIVE == "active"
IN_PROGRESS == "in_progress"
COMPLETED == "completed"
CANCELLED == "cancelled"
DrawStatus == {ACTIVE, IN_PROGRESS, COMPLETED, CANCELLED}

\* draw_date: <<>> is None, <<t>> a UTC instant (in hours)
NoDate == <<>>

VARIABLES
    clock,          \* datetime.now(timezone.utc), in hours
    status,         \* committed Draw.status, per draw
    draw_date,      \* committed Draw.draw_date, per draw
    participants,   \* committed Participant ids, per draw
    nextPid,        \* next Participant id of a draw (ids are never reused)
    results,        \* committed DrawResult rows, per draw: one matching per commit
    tasks,          \* the process_draw tasks handed to the queue, in order
    swPc,           \* the sweep's position: idle, count, claim
    swNow,          \* the sweep's `now`
    swSel,          \* per draw: status the selection query read, "none" if not selected
    swLoaded,       \* per draw: status held by the sweep session's Draw object
    swExpired,      \* the session's objects are expired (a commit happened)
    swTodo,         \* scheduled_draws not yet iterated
    processed_draws,\* the entries of the sweep's processed_draws
    skipped_draws,  \* the entries of the sweep's skipped_draws
    swRet,          \* the last sweep's returned status
    mPc,            \* the matching engine's position: off, start, repair, done
    mIds,           \* compute_assignment's participant_ids
    mPerm,          \* the receivers, by position of the giver in mIds
    mOut,           \* the (giver, receiver) pairs compute_assignment returns
    ePc,            \* _send_draw_result_emails: off, lookup, loop, done
    eResults,       \* draw_results: the (giver id, receiver id) pairs to notify
    eDict,          \* participants_dict: the participant ids that resolve
    eEmail,         \* Participant.email, per participant id
    eIdx,           \* position of the loop in draw_results
    eMap,           \* the dispatcher's results dict: email -> success
    eAttempts,      \* number of sends handed to the transport
    eFailed,        \* number of sends that returned False
    eSummary,       \* the summary _send_draw_result_emails returns
    dPc,            \* normalize_and_validate_draw_date: off, call, done
    dNow,           \* datetime.now(timezone.utc) of the call
    dDate,          \* the draw_date argument: <<>> is None, <<dt>> a datetime
    dLanguage,      \* the language argument
    dUtc,           \* draw_date after astimezone(timezone.utc)
    dOut,           \* what the call returned or raised
    sLanguage,      \* Draw.language of the draws created ("none": no draw)
    sDrawDate,      \* Draw.draw_date as stored by creation and schedule update
    aNow,           \* datetime.now(timezone.utc) of the auth endpoints
    aUsers,         \* the committed User rows
    aNextId,        \* the next User.id
    aIssued,        \* the tokens the service has signed so far
    aOutbox,        \* the password reset emails handed to the task queue
    aRequest,       \* the last request the auth endpoints served
    aResponse,      \* its response
    aCalls,         \* number of requests served
    pExc            \* what service.execute_draw did in the process_draw call followed

vars == <<clock, status, draw_date, participants, nextPid, results, tasks,
          swPc, swNow, swSel, swLoaded, swExpired, swTodo, processed_draws,
          skipped_draws, swRet, mPc, mIds, mPerm, mOut,
          ePc, eResults, eDict, eEmail, eIdx, eMap, eAttempts, eFailed, eSummary,
          dPc, dNow, dDate, dLanguage, dUtc, dOut, sLanguage, sDrawDate,
          aNow, aUsers, aNextId, aIssued, aOutbox, aRequest, aResponse, aCalls,
          pExc>>

dbVars == <<status, draw_date, participants, nextPid, results>>
sweepVars == <<swPc, swNow, swSel, swLoaded, swExpired, swTodo,
               processed_draws, skipped_draws, swRet>>
matchVars == <<mPc, mIds, mPerm, mOut>>
emailVars == <<ePc, eResults, eDict, eEmail, eIdx, eMap, eAttempts, eFailed, eSummary>>
\* the variables of the components beside the pipeline
dateVars == <<dPc, dNow, dDate, dLanguage, dUtc, dOut, sLanguage, sDrawDate>>
authVars == <<aNow, aUsers, aNextId, aIssued, aOutbox, aRequest, aResponse, aCalls>>
procVars == <<pExc>>
sideVars == <<matchVars, emailVars, dateVars, authVars, procVars>>
mainVars == <<clock, dbVars, tasks, sweepVars>>
\* what each component leaves alone
matchRest == <<mainVars, emailVars, dateVars, authVars, procVars>>
emailRest == <<clock, dbVars, sweepVars, matchVars, dateVars, authVars, procVars>>
dateRest == <<mainVars, matchVars, emailVars, authVars, procVars>>
authRest == <<mainVars, matchVars, emailVars, dateVars, procVars>>
procRest == <<clock, draw_date, participants, nextPid, sweepVars, matchVars,
              emailVars, dateVars, authVars>>

\* ------------------------------------------------------------ helpers
Range(s) == {s[i] : i \in DOMAIN s}

\* the sequences that list the elements of S once each
Orderings(S) ==
    {s \in [1..Cardinality(S) -> S] : \A i, j \in DOMAIN s : i # j => s[i] # s[j]}

\* what compute_assignment may return over the ids S: a permutation of S
\* without fixed point, as giver -> receiver
Derangements(S) ==
    {m \in [S -> S] : /\ \A p, q \in S : p # q => m[p] # m[q]
                      /\ \A p \in S : m[p] # p}

\* mutant: the query without its status filter
SelectedAtAnyStatus(d, now) ==
    /\ draw_date[d] # NoDate
    /\ draw_date[d][1] <= now

\* mutant: the query without the comparison of draw_date with now
SelectedAtAnyDate(d, now) ==
    /\ draw_date[d] # NoDate
    /\ status[d] \in {ACTIVE, IN_PROGRESS}

\* mutant: the query selects Active draws only
SelectedAtActiveOnly(d, now) ==
    /\ draw_date[d] # NoDate
    /\ draw_date[d][1] <= now
    /\ status[d] = ACTIVE

\* the selection predicate of the sweep's query
SelectedAt(d, now) ==
    /\ draw_date[d] # NoDate
    /\ draw_date[d][1] <= now
    /\ status[d] \in {ACTIVE, IN_PROGRESS}

\* ----------------------------------------------------------- Init
\* a dynamic draw open for joining: its organizer and one participant
InitParticipants == {1, 2}

\* draws differ by id only: the first is scheduled, the others scheduled
\* or manual (draw_date None)
InitDates ==
    {f \in [DrawIds -> {NoDate, <<1>>}] : f[1] # NoDate}

MainInit ==
    /\ clock = 0
    /\ status = [d \in DrawIds |-> ACTIVE]
    /\ draw_date \in InitDates
    /\ participants = [d \in DrawIds |-> InitParticipants]
    /\ nextPid = [d \in DrawIds |-> Cardinality(InitParticipants) + 1]
    /\ results = [d \in DrawIds |-> <<>>]
    /\ tasks = <<>>
    /\ swPc = "idle"
    /\ swNow = 0
    /\ swSel = [d \in DrawIds |-> "none"]
    /\ swLoaded = [d \in DrawIds |-> "none"]
    /\ swExpired = FALSE
    /\ swTodo = <<>>
    /\ processed_draws = <<>>
    /\ skipped_draws = <<>>
    /\ swRet = "none"

\* ---------------------------------------------------- the environment
\* the clock advances
Tick ==
    /\ clock < MaxNow
    /\ clock' = clock + 1
    /\ UNCHANGED <<sideVars, dbVars, tasks, sweepVars>>

\* a participant joins an open draw through its invite link
Join(d) ==
    /\ status[d] = ACTIVE
    /\ nextPid[d] <= MaxPart
    /\ participants' = [participants EXCEPT ![d] = @ \cup {nextPid[d]}]
    /\ nextPid' = [nextPid EXCEPT ![d] = @ + 1]
    /\ UNCHANGED <<sideVars, clock, status, draw_date, results, tasks, sweepVars>>

\* a participant who joined is removed from an open draw (participants
\* differ by id only: it is the last one who joined)
Leave(d) ==
    /\ status[d] = ACTIVE
    /\ Cardinality(participants[d]) > Cardinality(InitParticipants)
    /\ LET p == CHOOSE q \in participants[d] : \A r \in participants[d] : r <= q
       IN participants' = [participants EXCEPT ![d] = @ \ {p}]
    /\ UNCHANGED <<sideVars, clock, status, draw_date, nextPid, results, tasks, sweepVars>>

\* the operator cancels a draw that is not yet completed
Cancel(d) ==
    /\ status[d] \in {ACTIVE, IN_PROGRESS}
    /\ status' = [status EXCEPT ![d] = CANCELLED]
    /\ UNCHANGED <<sideVars, clock, draw_date, participants, nextPid, results, tasks, sweepVars>>

\* ------------------------------------------------------- process_draw
\* mutant: the sweep runs process_draw itself instead of queueing it
NewTaskRunInline(d, origin) == [draw |-> d, origin |-> origin, pc |-> "done",
                                pend |-> <<>>, ret |-> "unexpected"]

NewTask(d, origin) == [draw |-> d, origin |-> origin, pc |-> "queued",
                       pend |-> <<>>, ret |-> "none"]

\* process_draw.delay(draw_id)
Delay(d, origin) == tasks' = Append(tasks, NewTask(d, origin))

\* a manual trigger enqueues process_draw for the draw
ManualTrigger(d) ==
    /\ Len(tasks) < MaxTasks
    /\ Delay(d, "manual")
    /\ UNCHANGED <<sideVars, clock, dbVars, sweepVars>>

\* _handle_error: db.rollback() discards the session's pending writes
HandleError(i, error_type) ==
    tasks' = [tasks EXCEPT ![i] = [@ EXCEPT !.pc = "done", !.pend = <<>>,
                                              !.ret = error_type]]

\* DrawService.execute_draw steps 2 and 3, read from the committed state:
\* the exception raised, "ok" when none is
ExecuteOutcome(d) ==
    IF status[d] \notin {ACTIVE, IN_PROGRESS} THEN "DrawAlreadyCompletedError"
    ELSE IF Cardinality(participants[d]) < MinParticipants
         THEN "InsufficientParticipantsError"
    ELSE "ok"

\* mutant: the handlers of two exceptions exchanged
ErrorTypeExchanged(exc) ==
    CASE exc = "DrawNotFoundError" -> "not_found"
      [] exc = "InsufficientParticipantsError" -> "already_completed"
      [] exc = "DrawAlreadyCompletedError" -> "insufficient_participants"
      [] exc = "DrawServiceException" -> "service_error"
      [] OTHER -> "unexpected"

\* the except clauses of process_draw: the error_type of each exception
ErrorType(exc) ==
    CASE exc = "DrawNotFoundError" -> "not_found"
      [] exc = "InsufficientParticipantsError" -> "insufficient_participants"
      [] exc = "DrawAlreadyCompletedError" -> "already_completed"
      [] exc = "DrawServiceException" -> "service_error"
      [] OTHER -> "unexpected"

\* process_draw up to the return of service.execute_draw(draw_id): the
\* results and the Completed status are pending in the task's session
PDExecute(i) ==
    /\ i \in DOMAIN tasks
    /\ tasks[i].pc = "queued"
    /\ LET d == tasks[i].draw
           out == ExecuteOutcome(d)
       IN IF out = "ok"
          THEN \E m \in Derangements(participants[d]) :
                   tasks' = [tasks EXCEPT ![i] = [@ EXCEPT !.pc = "commit",
                                                             !.pend = m]]
          ELSE HandleError(i, ErrorType(out))
    /\ UNCHANGED <<sideVars, clock, dbVars, sweepVars>>

\* db.commit(): the DrawResult rows and the Completed status become visible
CommitDraw(i) ==
    LET d == tasks[i].draw
    IN /\ status' = [status EXCEPT ![d] = COMPLETED]
       /\ results' = [results EXCEPT ![d] = Append(@, tasks[i].pend)]

PDCommit(i) ==
    /\ i \in DOMAIN tasks
    /\ tasks[i].pc = "commit"
    /\ CommitDraw(i)
    /\ tasks' = [tasks EXCEPT ![i] = [@ EXCEPT !.pc = "done", !.pend = <<>>,
                                                 !.ret = "success"]]
    /\ UNCHANGED <<sideVars, clock, draw_date, participants, nextPid, sweepVars>>

\* an exception before the commit takes effect (except Exception)
PDFail(i) ==
    /\ i \in DOMAIN tasks
    /\ tasks[i].pc = "commit"
    /\ HandleError(i, ErrorType("Exception"))
    /\ UNCHANGED <<sideVars, clock, dbVars, sweepVars>>

\* ---------------------------------------- execute_scheduled_draw_task
NoRows == [d \in DrawIds |-> "none"]

\* lines 43-59: now, the selection query, the early return
SweepStart ==
    /\ swPc = "idle"
    /\ swNow' = clock
    /\ LET sel == {d \in DrawIds : SelectedAt(d, clock)}
       IN /\ swSel' = [d \in DrawIds |-> IF d \in sel THEN status[d] ELSE "none"]
          /\ swLoaded' = swSel'
          /\ swTodo' \in Orderings(sel)
          /\ swPc' = IF sel = {} THEN "idle" ELSE "count"
          /\ swRet' = IF sel = {} THEN "success" ELSE "none"
    /\ swExpired' = FALSE
    /\ processed_draws' = <<>>
    /\ skipped_draws' = <<>>
    /\ UNCHANGED <<sideVars, clock, dbVars, tasks>>

\* mutant: no except clause: an error ends the task without a result
SweepReturnRaising(ret) ==
    /\ swPc' = "idle"
    /\ swRet' = IF ret = "error" THEN "raised" ELSE ret
    /\ swTodo' = <<>>
    /\ swLoaded' = NoRows
    /\ swExpired' = FALSE

\* the task returns (lines 95-102, or 106-110 with status error) and
\* finally closes its session, which drops the objects it holds
SweepReturn(ret) ==
    /\ swPc' = "idle"
    /\ swRet' = ret
    /\ swTodo' = <<>>
    /\ swLoaded' = NoRows
    /\ swExpired' = FALSE

\* the Draw object of d as the session holds it when the iteration reads
\* draw.id: an expired object is reloaded
Loaded(d) == IF swExpired THEN status[d] ELSE swLoaded[d]

\* mutant: the admission check off by one
InsufficientBelowTwo(d) == Cardinality(participants[d]) < MinParticipants - 1

\* lines 65-69: the admission check of the sweep
Insufficient(d) == Cardinality(participants[d]) < MinParticipants

\* lines 70-74: the entry of skipped_draws
SkippedEntry(d) ==
    [draw_id |-> d, reason |-> "insufficient_participants",
     participant_count |-> Cardinality(participants[d])]

\* lines 82-86: the entry of processed_draws
ProcessedEntry(d) == [draw_id |-> d, draw_date |-> draw_date[d]]

DrawIdsOf(entries) == {entries[i].draw_id : i \in DOMAIN entries}

\* the dict the task returned: lines 55-59 and 95-102 with status success,
\* lines 106-110 with status error (no lists, draws_processed 0)
SweepResult ==
    IF swRet = "error"
    THEN [status |-> "error", draws_processed |-> 0, draws_skipped |-> 0,
          processed_draws |-> <<>>, skipped_draws |-> <<>>]
    ELSE [status |-> swRet, draws_processed |-> Len(processed_draws),
          draws_skipped |-> Len(skipped_draws),
          processed_draws |-> processed_draws, skipped_draws |-> skipped_draws]

\* lines 64-75: the participant count of the next draw; the loop ends
\* with the skip of the last one
SweepCount ==
    /\ swPc = "count"
    /\ LET d == Head(swTodo)
       IN IF Insufficient(d)
          THEN /\ skipped_draws' = Append(skipped_draws, SkippedEntry(d))
               /\ IF Tail(swTodo) = <<>>
                  THEN SweepReturn("success")
                  ELSE /\ swTodo' = Tail(swTodo)
                       /\ swLoaded' = [swLoaded EXCEPT ![d] = Loaded(d)]
                       /\ UNCHANGED <<swPc, swRet, swExpired>>
          ELSE /\ swPc' = "claim"
               /\ swLoaded' = [swLoaded EXCEPT ![d] = Loaded(d)]
               /\ UNCHANGED <<skipped_draws, swTodo, swRet, swExpired>>
    /\ UNCHANGED <<sideVars, clock, dbVars, tasks, swNow, swSel, processed_draws>>

\* draw.status = IN_PROGRESS; db.commit(): the UPDATE is emitted when the
\* value differs from the one the session loaded
ClaimStatus(d) ==
    IF swLoaded[d] # IN_PROGRESS
    THEN [status EXCEPT ![d] = IN_PROGRESS]
    ELSE status

\* lines 77-86: the claim, the commit and the handoff; the loop ends with
\* the dispatch of the last draw
SweepClaim ==
    /\ swPc = "claim"
    /\ Len(tasks) < MaxTasks
    /\ LET d == Head(swTodo)
       IN /\ status' = ClaimStatus(d)
          /\ Delay(d, "sweep")
          /\ processed_draws' = Append(processed_draws, ProcessedEntry(d))
          /\ IF Tail(swTodo) = <<>>
             THEN SweepReturn("success")
             ELSE /\ swTodo' = Tail(swTodo)
                  /\ swPc' = "count"
                  /\ swExpired' = TRUE
                  /\ UNCHANGED <<swLoaded, swRet>>
    /\ UNCHANGED <<sideVars, clock, draw_date, participants, nextPid, results, swNow,
                   swSel, skipped_draws>>

\* lines 104-112: an exception in the loop before the commit of the
\* current draw (the count query)
SweepErrorCount ==
    /\ swPc = "count"
    /\ SweepReturn("error")
    /\ UNCHANGED <<sideVars, clock, dbVars, tasks, swNow, swSel, processed_draws,
                   skipped_draws>>

\* lines 104-112: an exception in the handoff, after the commit of line 78
SweepErrorHandoff ==
    /\ swPc = "claim"
    /\ status' = ClaimStatus(Head(swTodo))
    /\ SweepReturn("error")
    /\ UNCHANGED <<sideVars, clock, draw_date, participants, nextPid, results, tasks,
                   swNow, swSel, processed_draws, skipped_draws>>

\* lines 104-112: an exception in the selection query of lines 45-51
SweepErrorQuery ==
    /\ swPc = "idle"
    /\ swNow' = clock
    /\ swSel' = NoRows
    /\ processed_draws' = <<>>
    /\ skipped_draws' = <<>>
    /\ SweepReturn("error")
    /\ UNCHANGED <<sideVars, clock, dbVars, tasks>>

\* lines 104-112: an exception in the commit of line 78: the status set at
\* line 77 is dropped with the session
SweepErrorCommit ==
    /\ swPc = "claim"
    /\ SweepReturn("error")
    /\ UNCHANGED <<sideVars, clock, dbVars, tasks, swNow, swSel, processed_draws,
                   skipped_draws>>

\* ------------------------------------------------------------- Next
Next ==
    \/ Tick
    \/ \E d \in DrawIds : Join(d)
    \/ \E d \in DrawIds : Leave(d)
    \/ \E d \in DrawIds : Cancel(d)
    \/ \E d \in DrawIds : ManualTrigger(d)
    \/ \E i \in 1..MaxTasks : PDExecute(i)
    \/ \E i \in 1..MaxTasks : PDCommit(i)
    \/ \E i \in 1..MaxTasks : PDFail(i)
    \/ SweepStart
    \/ SweepCount
    \/ SweepClaim
    \/ SweepErrorQuery
    \/ SweepErrorCount
    \/ SweepErrorCommit
    \/ SweepErrorHandoff

\* the matching engine is not running
MatchOff ==
    /\ mPc = "off"
    /\ mIds = <<>>
    /\ mPerm = <<>>
    /\ mOut = <<>>

\* no notification dispatch is followed on its own
EmailOff ==
    /\ ePc = "off"
    /\ eResults = <<>>
    /\ eDict = {}
    /\ eEmail = <<>>
    /\ eIdx = 0
    /\ eMap = <<>>
    /\ eAttempts = 0
    /\ eFailed = 0
    /\ eSummary = [kind |-> "none"]

\* no draw_date is being normalized
DateOff ==
    /\ dPc = "off"
    /\ dNow = <<>>
    /\ dDate = <<>>
    /\ dLanguage = "none"
    /\ dUtc = <<>>
    /\ dOut = [kind |-> "none"]
    /\ sLanguage = [d \in DrawIds |-> "none"]
    /\ sDrawDate = [d \in DrawIds |-> <<>>]

\* no request reaches the auth endpoints
AuthOff ==
    /\ aNow = 0
    /\ aUsers = {}
    /\ aNextId = 1
    /\ aIssued = {}
    /\ aOutbox = {}
    /\ aRequest = [op |-> "none", email |-> <<>>, password |-> <<>>, token |-> <<>>]
    /\ aResponse = [status |-> 0, detail |-> "", message |-> "", tokens |-> <<>>,
                    user |-> <<>>]
    /\ aCalls = 0

\* no process_draw call is followed on its own
ProcOff == pExc = [name |-> "none", bases |-> {}]

Init == MainInit /\ MatchOff /\ EmailOff /\ DateOff /\ AuthOff /\ ProcOff

Spec == Init /\ [][Next]_vars

\* ------------------------------------------------- pipeline properties
SweepTasks(d) ==
    {i \in DOMAIN tasks : tasks[i].draw = d /\ tasks[i].origin = "sweep"}

SuccessfulRuns(d) ==
    {i \in DOMAIN tasks : tasks[i].draw = d /\ tasks[i].ret = "success"}

\* how often participant p is the giver, the receiver of a DrawResult of d
GiverCount(d, p) ==
    Cardinality({k \in DOMAIN results[d] : p \in DOMAIN results[d][k]})
ReceiverCount(d, p) ==
    Cardinality({kg \in (DOMAIN results[d]) \X PartIds :
                    /\ kg[2] \in DOMAIN results[d][kg[1]]
                    /\ results[d][kg[1]][kg[2]] = p})

\* C1 as stated: over any sequence of sweeps each draw id is handed to
\* process_draw at most once, whether or not its execution has finished.
C1_AtMostOnceDispatch ==
    \A d \in DrawIds : Cardinality(SweepTasks(d)) <= 1

\* C1 amended: within one sweep each draw id is handed to process_draw at
\* most once, and a draw is dispatched by a sweep only if its status was
\* Active or InProgress (never Completed) when that sweep's selection query
\* ran; a draw still InProgress is selected and dispatched again.
C1_OncePerSweepUnlessCompleted ==
    /\ \A i, j \in DOMAIN processed_draws :
           i # j => processed_draws[i].draw_id # processed_draws[j].draw_id
    /\ \A d \in DrawIdsOf(processed_draws) : swSel[d] \in {ACTIVE, IN_PROGRESS}

\* C1 witness: a later sweep has dispatched a draw that an earlier sweep
\* had dispatched already.
C1_Redispatched ==
    \E d \in DrawIds :
        /\ Cardinality(SweepTasks(d)) = 2
        /\ d \in DrawIdsOf(processed_draws)
        /\ swSel[d] = IN_PROGRESS

\* C2 as stated: of the executions attempted for one draw exactly one
\* succeeds and creates DrawResults; a draw never holds two sets of results.
C2_OneExecutionSucceeds ==
    \A d \in DrawIds :
        /\ Cardinality(SuccessfulRuns(d)) <= 1
        /\ Len(results[d]) <= 1

\* C3 as stated, for a Completed draw: no step changes a Completed draw
\* back to InProgress or Active.
C3_CompletedStaysCompleted ==
    [][\A d \in DrawIds :
          status[d] = COMPLETED => status'[d] \notin {ACTIVE, IN_PROGRESS}]_vars

\* C4 as stated: in every committed state a draw has DrawResults if and
\* only if its status is Completed.
C4_ResultsIffCompleted ==
    \A d \in DrawIds : (results[d] # <<>>) <=> (status[d] = COMPLETED)

\* C5 as stated: for every Completed draw each participant id appears
\* exactly once as giver and exactly once as receiver of its DrawResults,
\* and no DrawResult has the giver as its receiver.
C5_ResultsAreDerangement ==
    \A d \in DrawIds :
        status[d] = COMPLETED =>
            /\ \A p \in participants[d] :
                   GiverCount(d, p) = 1 /\ ReceiverCount(d, p) = 1
            /\ \A k \in DOMAIN results[d] :
                   \A g \in DOMAIN results[d][k] : results[d][k][g] # g

\* a step of the sweep
SweepStep == sweepVars' # sweepVars

\* C8: a sweep that finds a due draw with fewer than 3 participants appends
\* it to skipped_draws with reason insufficient_participants, does not
\* dispatch it and changes nothing of the store (its status stays as it
\* was); and every sweep selects every draw that satisfies the selection
\* predicate, so the skipped draw is selected again.
C8_SkipLeavesDrawForRetry ==
    [][/\ (/\ swPc = "count"
           /\ SweepStep
           /\ swRet' # "error"
           /\ Cardinality(participants[Head(swTodo)]) < MinParticipants)
          => /\ Len(skipped_draws') = Len(skipped_draws) + 1
             /\ skipped_draws'[Len(skipped_draws')].draw_id = Head(swTodo)
             /\ skipped_draws'[Len(skipped_draws')].reason
                    = "insufficient_participants"
             /\ processed_draws' = processed_draws
             /\ tasks' = tasks
             /\ dbVars' = dbVars
       /\ (swPc = "idle" /\ SweepStep /\ swRet' # "error")
          => \A d \in DrawIds :
                 (/\ draw_date[d] # NoDate
                  /\ draw_date[d][1] <= clock
                  /\ status[d] \in {ACTIVE, IN_PROGRESS})
                 => d \in Range(swTodo')]_vars

\* C8 witness: a sweep has returned with a draw in skipped_draws, the draw
\* is still Active, has reached 3 participants since and satisfies the
\* selection predicate of the next sweep.
C8_SkippedThenReady ==
    \E d \in DrawIds :
        /\ swPc = "idle"
        /\ swRet = "success"
        /\ d \in DrawIdsOf(skipped_draws)
        /\ status[d] = ACTIVE
        /\ Cardinality(participants[d]) >= MinParticipants
        /\ SelectedAt(d, clock)

\* C9: every draw a sweep iterates, skips or dispatches had a non-null
\* draw_date not later than the sweep's now and status Active or
\* InProgress when the selection query ran; of every other draw no step of
\* the sweep changes a field or hands it to process_draw.
C9_SweepActsOnSelectedOnly ==
    [][/\ \A d \in Range(swTodo') \cup DrawIdsOf(processed_draws')
                      \cup DrawIdsOf(skipped_draws') :
              /\ draw_date'[d] # NoDate
              /\ draw_date'[d][1] <= swNow'
              /\ swSel'[d] \in {ACTIVE, IN_PROGRESS}
       /\ SweepStep =>
              \A d \in DrawIds :
                  swSel'[d] = "none" =>
                      /\ status'[d] = status[d]
                      /\ draw_date'[d] = draw_date[d]
                      /\ participants'[d] = participants[d]
                      /\ results'[d] = results[d]
                      /\ \A i \in DOMAIN tasks' \ DOMAIN tasks :
                             tasks'[i].draw # d]_vars

\* C9 witness: a sweep has dispatched a draw and left alone a draw with no
\* draw_date, or a due draw that was Completed or Cancelled at its query.
C9_OtherDrawUntouched ==
    /\ swPc = "idle"
    /\ swRet = "success"
    /\ processed_draws # <<>>
    /\ \E d \in DrawIds :
           /\ swSel[d] = "none"
           /\ status[d] \in {COMPLETED, CANCELLED}
           /\ draw_date[d] # NoDate
           /\ draw_date[d][1] <= swNow
    /\ \E d \in DrawIds : draw_date[d] = NoDate \/ swSel[d] # "none"

\* C10: a process_draw whose execute_draw finds the draw Active or
\* InProgress with fewer than 3 participants returns error_type
\* insufficient_participants and changes nothing of the store: no
\* DrawResults, the status as it was.
C10_InsufficientParticipants ==
    [][\A i \in DOMAIN tasks :
          (/\ tasks[i].pc = "queued"
           /\ tasks'[i].pc # "queued"
           /\ status[tasks[i].draw] \in {ACTIVE, IN_PROGRESS}
           /\ Cardinality(participants[tasks[i].draw]) < MinParticipants)
          => /\ tasks'[i].pc = "done"
             /\ tasks'[i].ret = "insufficient_participants"
             /\ dbVars' = dbVars]_vars

\* C10 witness: one execution has failed so on a draw that is still Active,
\* another on a draw the sweep had set to InProgress before it handed it
\* over.
C10_FailedActiveAndInProgress ==
    /\ \E i \in DOMAIN tasks :
           /\ tasks[i].ret = "insufficient_participants"
           /\ status[tasks[i].draw] = ACTIVE
    /\ \E i \in DOMAIN tasks :
           /\ tasks[i].ret = "insufficient_participants"
           /\ tasks[i].origin = "sweep"
           /\ status[tasks[i].draw] = IN_PROGRESS

\* C11 as stated, for a Completed draw: an execution that finds the draw
\* Completed returns error_type already_completed and changes nothing, and
\* no step adds to, replaces or deletes the DrawResults of a Completed draw.
C11_CompletedResultsImmutable ==
    [][/\ \A i \in DOMAIN tasks :
             (/\ tasks[i].pc = "queued"
              /\ tasks'[i].pc # "queued"
              /\ status[tasks[i].draw] = COMPLETED)
             => /\ tasks'[i].ret = "already_completed"
                /\ dbVars' = dbVars
       /\ \A d \in DrawIds :
             status[d] = COMPLETED => results'[d] = results[d]]_vars

\* C15 as stated: whatever happens at the handoff of a draw, the sweep goes
\* on to the candidates that follow it.
C15_SweepGoesOnAfterHandoff ==
    [][(swPc = "claim" /\ SweepStep /\ Tail(swTodo) # <<>>)
       => /\ swPc' = "count"
          /\ swTodo' = Tail(swTodo)]_vars

\* C15 amended: a claim step that does not end in the error branch hands the
\* draw over as a task that is still queued when the sweep moves on (the
\* sweep waits for no execution), sets the draw InProgress unless the sweep
\* holds it as InProgress already, and goes on to the next candidate; a
\* process_draw that ends with an error changes neither the sweep nor any
\* draw; a sweep that ends before its last candidate returns status error,
\* and no sweep step changes a draw other than the current one.
C15_IsolatedFromExecutions ==
    [][/\ (swPc = "claim" /\ SweepStep /\ swRet' # "error")
          => LET d == Head(swTodo)
             IN /\ Len(tasks') = Len(tasks) + 1
                /\ tasks'[Len(tasks')].draw = d
                /\ tasks'[Len(tasks')].pc = "queued"
                /\ \A i \in DOMAIN tasks : tasks'[i] = tasks[i]
                /\ status'[d] = IN_PROGRESS \/ swLoaded[d] = IN_PROGRESS
                /\ Tail(swTodo) # <<>> => swPc' = "count" /\ swTodo' = Tail(swTodo)
       /\ (swPc # "idle" /\ swPc' = "idle" /\ Tail(swTodo) # <<>>)
          => swRet' = "error" /\ tasks' = tasks
       /\ (SweepStep /\ swPc # "idle")
          => \A o \in DrawIds \ {Head(swTodo)} :
                 /\ status'[o] = status[o]
                 /\ results'[o] = results[o]
                 /\ participants'[o] = participants[o]
       /\ \A i \in DOMAIN tasks :
             (tasks[i].ret = "none" /\ tasks'[i].ret \notin {"none", "success"})
             => sweepVars' = sweepVars /\ dbVars' = dbVars]_vars

\* C15 witness: one sweep has dispatched both draws and returned success,
\* and the execution of the first of them has failed.
C15_DispatchedBothOneFailed ==
    /\ swPc = "idle"
    /\ swRet = "success"
    /\ Len(processed_draws) = 2
    /\ \E i, j \in DOMAIN tasks :
           /\ tasks[i].origin = "sweep" /\ tasks[j].origin = "sweep"
           /\ tasks[i].draw = processed_draws[1].draw_id
           /\ tasks[j].draw = processed_draws[2].draw_id
           /\ tasks[i].ret = "unexpected"
           /\ status[tasks[j].draw] = IN_PROGRESS

\* C23: an error in the sweep's selection query, in a participant count,
\* in a commit or in the handoff ends the sweep with a returned status error
\* (never without a result) and with its session closed; the next sweep can
\* start, and it selects exactly the draws that satisfy the selection
\* predicate at that time.
C23_SweepErrorCaught ==
    /\ [](swRet \in {"none", "success", "error"})
    /\ [](swRet = "error" => /\ swPc = "idle"
                             /\ swLoaded = NoRows
                             /\ swTodo = <<>>
                             /\ ENABLED SweepStart)
    /\ [][(swRet = "error" /\ SweepStep /\ swRet' # "error")
          => /\ swNow' = clock
             /\ \A d \in DrawIds :
                    (swSel'[d] # "none") <=> (/\ draw_date[d] # NoDate
                                              /\ draw_date[d][1] <= clock
                                              /\ status[d] \in {ACTIVE, IN_PROGRESS})]_vars

\* a sweep ended in its error branch after the commit of a claim: the draw is
\* InProgress, was not handed off, and still satisfies the selection predicate
C23_ReturnedErrorAfterClaim ==
    /\ swRet = "error"
    /\ \E d \in DrawIds : /\ status[d] = IN_PROGRESS
                           /\ SweepTasks(d) = {}
                           /\ SelectedAt(d, clock)

\* C25: when a sweep has returned, with status success or error, the draws
\* it claimed and handed to process_draw are exactly the draw ids of the
\* returned processed_draws, draws_processed is their number, and every
\* selected draw is in exactly one of the returned processed_draws and
\* skipped_draws.
C25_ReturnAccountsForRun ==
    (swPc = "idle" /\ swRet \in {"success", "error"}) =>
        LET handed == DrawIdsOf(processed_draws)
            reported == DrawIdsOf(SweepResult.processed_draws)
            skipped == DrawIdsOf(SweepResult.skipped_draws)
        IN /\ reported = handed
           /\ SweepResult.draws_processed = Cardinality(handed)
           /\ \A d \in DrawIds :
                  swSel[d] # "none" => (d \in reported) # (d \in skipped)

\* ------------------------------------- scheduled draws, fair scheduling
\* a finished process_draw call that failed leaves the worker: its slot in
\* the queue is free again
Forget(i) ==
    /\ i \in DOMAIN tasks
    /\ tasks[i].pc = "done"
    /\ tasks[i].ret # "success"
    /\ tasks' = [j \in 1..(Len(tasks) - 1) |-> IF j < i THEN tasks[j] ELSE tasks[j + 1]]
    /\ UNCHANGED <<sideVars, clock, dbVars, sweepVars>>

\* the first draw is scheduled, the others are executed on manual trigger
\* only
InitLive ==
    /\ Init
    /\ \A d \in DrawIds \ {1} : draw_date[d] = NoDate

\* the scheduled pipeline: no manual trigger
NextLive ==
    \/ Tick
    \/ \E d \in DrawIds : Join(d)
    \/ \E d \in DrawIds : Leave(d)
    \/ \E d \in DrawIds : Cancel(d)
    \/ \E i \in 1..MaxTasks : PDExecute(i)
    \/ \E i \in 1..MaxTasks : PDCommit(i)
    \/ \E i \in 1..MaxTasks : PDFail(i)
    \/ \E i \in 1..MaxTasks : Forget(i)
    \/ SweepStart
    \/ SweepCount
    \/ SweepClaim
    \/ SweepErrorQuery
    \/ SweepErrorCount
    \/ SweepErrorCommit
    \/ SweepErrorHandoff

\* sweeps keep running and do not fail forever at the same place; a
\* dispatched execution runs, and does not fail at its commit forever
SpecLive ==
    /\ InitLive
    /\ [][NextLive]_vars
    /\ WF_vars(SweepStart)
    /\ SF_vars(SweepCount)
    /\ SF_vars(SweepClaim)
    /\ \A i \in 1..MaxTasks : /\ WF_vars(PDExecute(i))
                              /\ SF_vars(PDCommit(i))
                              /\ WF_vars(Forget(i))

\* the draw is due for the sweep and has enough participants
Ready(d) ==
    /\ status[d] \in {ACTIVE, IN_PROGRESS}
    /\ draw_date[d] # NoDate
    /\ draw_date[d][1] <= clock
    /\ Cardinality(participants[d]) >= MinParticipants

\* C24 as stated: a draw that is Active or InProgress, whose draw_date has
\* passed and that has at least 3 participants is eventually Completed.
C24_DueDrawCompletes ==
    \A d \in DrawIds : Ready(d) ~> (status[d] = COMPLETED)

\* C24 amended: such a draw is eventually Completed, unless it is cancelled
\* or falls below 3 participants first.
C24_DueDrawCompletesUnlessWithdrawn ==
    \A d \in DrawIds :
        Ready(d) ~> \/ status[d] = COMPLETED
                    \/ status[d] = CANCELLED
                    \/ Cardinality(participants[d]) < MinParticipants

\* an execution of the draw failed, a later sweep dispatched it again and
\* that execution completed it
C24_CompletedAfterFailure ==
    \E i, j \in DOMAIN tasks :
        /\ i < j
        /\ tasks[i].draw = tasks[j].draw
        /\ tasks[i].origin = "sweep" /\ tasks[j].origin = "sweep"
        /\ tasks[i].ret = "unexpected"
        /\ tasks[j].ret = "success"
        /\ status[tasks[i].draw] = COMPLETED

\* ---------------------------------------------------- matching engine
\* the id sequences compute_assignment is called with: N >= 3 distinct ids
MatchInputs ==
    UNION {Orderings(S) : S \in {T \in SUBSET (1..MaxIds) :
                                     Cardinality(T) >= MinParticipants}}

\* mutant: a shuffle that never moves the last element
ShuffledButLast(ids) ==
    {p \in Orderings(Range(ids)) : p[Len(ids)] = ids[Len(ids)]}

\* what the random source may return for a shuffle of ids
Shuffled(ids) == Orderings(Range(ids))

FixedPoints(ids, perm) == {i \in DOMAIN ids : perm[i] = ids[i]}

\* mutant: a swap that loses the second assignment
SwapCopy(perm, i, j) ==
    [perm EXCEPT ![i] = perm[j]]

\* positions i and j of perm exchanged
Swap(perm, i, j) ==
    [perm EXCEPT ![i] = perm[j], ![j] = perm[i]]

\* the pipeline at rest while the engine runs
MainIdle ==
    /\ MainInit
    /\ \A d \in DrawIds : draw_date[d] # NoDate

InitMatch ==
    /\ MainIdle
    /\ EmailOff
    /\ DateOff
    /\ AuthOff
    /\ ProcOff
    /\ mPc = "start"
    /\ mIds \in MatchInputs
    /\ mPerm = <<>>
    /\ mOut = <<>>

\* a random permutation of the id sequence
Shuffle ==
    /\ mPc = "start"
    /\ mPerm' \in Shuffled(mIds)
    /\ mPc' = "repair"
    /\ UNCHANGED <<matchRest, mIds, mOut>>

\* a position that maps an id to itself is swapped with a neighbouring one
SwapRepair ==
    /\ mPc = "repair"
    /\ \E i \in FixedPoints(mIds, mPerm) :
         \E j \in {i - 1, i + 1} \cap DOMAIN mIds :
             mPerm' = Swap(mPerm, i, j)
    /\ UNCHANGED <<matchRest, mPc, mIds, mOut>>

\* or the permutation is generated again
Regenerate ==
    /\ mPc = "repair"
    /\ FixedPoints(mIds, mPerm) # {}
    /\ mPerm' \in Shuffled(mIds)
    /\ UNCHANGED <<matchRest, mPc, mIds, mOut>>

\* no fixed point remains: the pairs are returned
Assignment(ids, perm) == [i \in DOMAIN ids |-> <<ids[i], perm[i]>>]

ReturnAssignment ==
    /\ mPc = "repair"
    /\ FixedPoints(mIds, mPerm) = {}
    /\ mOut' = Assignment(mIds, mPerm)
    /\ mPc' = "done"
    /\ UNCHANGED <<matchRest, mIds, mPerm>>

NextMatch ==
    \/ Shuffle
    \/ SwapRepair
    \/ Regenerate
    \/ ReturnAssignment

SpecMatch == InitMatch /\ [][NextMatch]_vars

\* a regeneration that yields a permutation without fixed point
RegenerateGood ==
    /\ Regenerate
    /\ FixedPoints(mIds, mPerm') = {}

\* fair random choices: the engine keeps taking steps, and a random source
\* asked again and again does not withhold the permutations without fixed
\* point for ever
SpecMatchFair ==
    /\ SpecMatch
    /\ WF_vars(NextMatch)
    /\ WF_vars(RegenerateGood)

\* ---------------------------------------- matching engine properties
\* C6: for N >= 3 distinct ids compute_assignment returns exactly N pairs,
\* each id once as giver and once as receiver, no pair with giver =
\* receiver, whatever the random choices.
C6_AssignmentIsDerangement ==
    mPc = "done" =>
        /\ Len(mOut) = Len(mIds)
        /\ \A k \in DOMAIN mIds :
               /\ Cardinality({i \in DOMAIN mOut : mOut[i][1] = mIds[k]}) = 1
               /\ Cardinality({i \in DOMAIN mOut : mOut[i][2] = mIds[k]}) = 1
        /\ \A i \in DOMAIN mOut : mOut[i][1] # mOut[i][2]

\* C6 witness: the engine has returned for more than 3 ids.
C6_Returned ==
    /\ mPc = "done"
    /\ Len(mIds) > MinParticipants

\* C7: under fair random choices the engine returns after finitely many
\* steps, for every input of N >= 3 distinct ids.
C7_EngineTerminates == <>(mPc = "done")

\* C7 witness: the shuffle has returned the id sequence itself, every
\* position a fixed point to repair.
C7_AllFixedPoints ==
    /\ mPc = "repair"
    /\ FixedPoints(mIds, mPerm) = DOMAIN mIds

\* ---------------------------------------------- notification dispatch
\* what ses_client.send_email does for one message
TransportOutcomes == {"sent", "ClientError", "Exception"}

\* send_draw_result_email: True when the transport took the message, False
\* when it raised a ClientError or anything else
SendDrawResultEmail(outcome) == outcome = "sent"

\* _validate_participants: giver and receiver both resolve
ValidateParticipants(r) == r[1] \in eDict /\ r[2] \in eDict

\* results[giver.email] = success
Recorded(map, email, success) ==
    [a \in DOMAIN map \cup {email} |-> IF a = email THEN success ELSE map[a]]

\* mutant: the loop left at the first failed send
NextResultUnlessFailed(idx, success) ==
    IF success THEN idx + 1 ELSE Len(eResults) + 1

\* for draw_result in draw_results: the next result, whatever the send
\* returned
NextResult(idx, success) == idx + 1

\* successful_emails and len(email_results)
EmailCounts(map) ==
    [kind |-> "counts",
     emails_sent |-> Cardinality({a \in DOMAIN map : map[a]}),
     emails_total |-> Cardinality(DOMAIN map)]

EmailError(message) == [kind |-> "email_error", message |-> message]

\* mutant: an error of the dispatch reaches the except clauses of process_draw
ProcessReturnRaising(summary) ==
    IF summary.kind = "email_error" THEN "unexpected" ELSE "success"

\* the status process_draw returns after its commit, with the summary
ProcessReturn(summary) == "success"

\* process_draw is past db.commit(): draw 1 is Completed with the
\* DrawResults of one matching m over its participants; of these the set S
\* is still stored when the dispatcher loads draw.participants
InitEmail ==
    /\ MatchOff
    /\ DateOff
    /\ AuthOff
    /\ ProcOff
    /\ clock = 0
    /\ draw_date = [d \in DrawIds |-> <<1>>]
    /\ status = [d \in DrawIds |-> IF d = 1 THEN COMPLETED ELSE ACTIVE]
    /\ \E m \in Derangements(PartIds), S \in SUBSET PartIds :
          /\ results = [d \in DrawIds |-> IF d = 1 THEN <<m>> ELSE <<>>]
          /\ participants = [d \in DrawIds |-> IF d = 1 THEN S ELSE InitParticipants]
          /\ eResults = [g \in PartIds |-> <<g, m[g]>>]
          /\ eDict = S
    /\ nextPid = [d \in DrawIds |-> IF d = 1 THEN MaxPart + 1
                                     ELSE Cardinality(InitParticipants) + 1]
    /\ tasks = <<[NewTask(1, "manual") EXCEPT !.pc = "emails"]>>
    /\ swPc = "idle"
    /\ swNow = 0
    /\ swSel = NoRows
    /\ swLoaded = NoRows
    /\ swExpired = FALSE
    /\ swTodo = <<>>
    /\ processed_draws = <<>>
    /\ skipped_draws = <<>>
    /\ swRet = "none"
    /\ ePc = "lookup"
    /\ eEmail \in [PartIds -> PartIds]
    /\ eIdx = 0
    /\ eMap = <<>>
    /\ eAttempts = 0
    /\ eFailed = 0
    /\ eSummary = [kind |-> "none"]

\* _send_draw_result_emails returns its summary and process_draw returns
EmailReturn(summary) ==
    /\ eSummary' = summary
    /\ ePc' = "done"
    /\ tasks' = [tasks EXCEPT ![1] = [@ EXCEPT !.pc = "done",
                                               !.ret = ProcessReturn(summary)]]

\* the draw is found: the loop over draw_results starts
EmailDrawFound ==
    /\ ePc = "lookup"
    /\ ePc' = "loop"
    /\ eIdx' = 1
    /\ UNCHANGED <<emailRest, tasks, eResults, eDict, eEmail, eMap, eAttempts,
                   eFailed, eSummary>>

\* the query for the draw returns no row
EmailDrawNotFound ==
    /\ ePc = "lookup"
    /\ EmailReturn(EmailError("Draw not found after execution"))
    /\ UNCHANGED <<emailRest, eResults, eDict, eEmail, eIdx, eMap, eAttempts, eFailed>>

\* except Exception as email_error: anything raised by the query, by
\* EmailService() or by the loop outside send_draw_result_email
EmailRaise ==
    /\ ePc \in {"lookup", "loop"}
    /\ EmailReturn(EmailError("exception"))
    /\ UNCHANGED <<emailRest, eResults, eDict, eEmail, eIdx, eMap, eAttempts, eFailed>>

\* a result whose giver or receiver does not resolve: continue
EmailSkip ==
    /\ ePc = "loop"
    /\ eIdx <= Len(eResults)
    /\ ~ValidateParticipants(eResults[eIdx])
    /\ eIdx' = eIdx + 1
    /\ UNCHANGED <<emailRest, tasks, ePc, eResults, eDict, eEmail, eMap, eAttempts,
                   eFailed, eSummary>>

\* one send and its entry in the results dict
EmailSend ==
    /\ ePc = "loop"
    /\ eIdx <= Len(eResults)
    /\ ValidateParticipants(eResults[eIdx])
    /\ \E outcome \in TransportOutcomes :
          LET success == SendDrawResultEmail(outcome)
          IN /\ eMap' = Recorded(eMap, eEmail[eResults[eIdx][1]], success)
             /\ eFailed' = IF success THEN eFailed ELSE eFailed + 1
             /\ eIdx' = NextResult(eIdx, success)
    /\ eAttempts' = eAttempts + 1
    /\ UNCHANGED <<emailRest, tasks, ePc, eResults, eDict, eEmail, eSummary>>

\* the loop is over: the counts are returned
EmailFinish ==
    /\ ePc = "loop"
    /\ eIdx > Len(eResults)
    /\ EmailReturn(EmailCounts(eMap))
    /\ UNCHANGED <<emailRest, eResults, eDict, eEmail, eIdx, eMap, eAttempts, eFailed>>

NextEmail ==
    \/ EmailDrawFound
    \/ EmailDrawNotFound
    \/ EmailRaise
    \/ EmailSkip
    \/ EmailSend
    \/ EmailFinish

SpecEmail == InitEmail /\ [][NextEmail]_vars

\* the results of draw_results whose giver and receiver resolve
Resolving == {i \in DOMAIN eResults : ValidateParticipants(eResults[i])}

\* ------------------------------------ notification dispatch properties
\* C12: whatever the dispatch does (sends failing, the draw not found, an
\* exception), the draw stays Completed with the DrawResults that were
\* committed, and process_draw returns status success.
C12_NotificationLeavesDrawCommitted ==
    /\ status[1] = COMPLETED
    /\ Len(results[1]) = 1
    /\ \A i \in DOMAIN eResults : results[1][1][eResults[i][1]] = eResults[i][2]
    /\ ePc = "done" => tasks[1].pc = "done" /\ tasks[1].ret = "success"

\* C12 witness: every send failed and the dispatcher then raised; process_draw
\* has returned with email_error.
C12_DispatchFailed ==
    /\ ePc = "done"
    /\ eSummary = EmailError("exception")
    /\ eAttempts = Len(eResults)
    /\ eFailed = Len(eResults)
    /\ tasks[1].pc = "done"

\* C13: each result whose giver and receiver resolve is handed to the
\* transport, whatever the earlier sends returned; a failed send is recorded
\* as False for the giver's email and the loop goes on to the next result;
\* when the dispatcher returns, one send was attempted per resolving result.
C13_PerSendIsolation ==
    [][/\ (/\ ePc = "loop"
           /\ ePc' = "loop"
           /\ eIdx <= Len(eResults)
           /\ ValidateParticipants(eResults[eIdx]))
          => /\ eAttempts' = eAttempts + 1
             /\ eIdx' = eIdx + 1
             /\ eMap'[eEmail[eResults[eIdx][1]]] = (eFailed' = eFailed)
       /\ (ePc = "loop" /\ ePc' = "done" /\ eSummary'.kind = "counts")
          => eAttempts = Cardinality(Resolving)]_vars

\* C13 witness: the first send failed, the two after it were attempted and
\* succeeded (all emails distinct).
C13_SentAfterFailure ==
    /\ ePc = "done"
    /\ eSummary.kind = "counts"
    /\ \A p, q \in PartIds : p # q => eEmail[p] # eEmail[q]
    /\ eAttempts = Len(eResults)
    /\ eMap[eEmail[eResults[1][1]]] = FALSE
    /\ eFailed = 1

\* C14 as stated: with all transports succeeding, emails_sent and
\* emails_total both equal the number of results whose giver and receiver
\* resolve (k - m).
C14_SkippedNotCounted ==
    (ePc = "done" /\ eSummary.kind = "counts" /\ eFailed = 0)
    => /\ eSummary.emails_sent = Cardinality(Resolving)
       /\ eSummary.emails_total = Cardinality(Resolving)

\* ------------------------------------------------ draw_date normalizer
\* A datetime is its fields: year, hour (counted from the start of the
\* year), minute, second, microsecond, and tzinfo: <<>> for a naive value,
\* <<m>> for an offset of m minutes east of UTC.
HoursPerYear == 8760

\* ZoneInfo("Europe/Istanbul"): UTC+03:00 all year
IstanbulOffset == 180

TzInputs == {<<>>, <<0>>, <<IstanbulOffset>>, <<330>>, <<-60>>}

\* the dates a request may carry
DateInputs ==
    [year : {2, 3}, hour : {0, 1, 2, 13, HoursPerYear - 1}, minute : {0, 30},
     second : {0, 1}, microsecond : {0, 500000}, tzinfo : TzInputs]

OptionalDateInputs == {<<>>} \cup {<<dt>> : dt \in DateInputs}

\* the times of the calls, in UTC
NowInputs ==
    {[year |-> 2, hour |-> h, minute |-> mi, second |-> 0, microsecond |-> 0,
      tzinfo |-> <<0>>] : h \in {1, HoursPerYear - 2}, mi \in {0, 30}}

LanguageInputs == {"TR", "EN", "tr"}

\* str.upper()
Upper(language) ==
    CASE language = "tr" -> "TR"
      [] language = "en" -> "EN"
      [] OTHER -> language

\* the minutes from the start of year 0 to the wall-clock reading of dt
WallMinutes(dt) == (dt.year * HoursPerYear + dt.hour) * 60 + dt.minute

\* mutant: a naive date always read as UTC
WithTimezoneUTC(dt, language) ==
    IF dt.tzinfo = <<>> THEN [dt EXCEPT !.tzinfo = <<0>>] ELSE dt

\* lines 51-57: a naive date gets the timezone of the draw's language
WithTimezone(dt, language) ==
    IF dt.tzinfo = <<>>
    THEN IF Upper(language) = "TR"
         THEN [dt EXCEPT !.tzinfo = <<IstanbulOffset>>]
         ELSE [dt EXCEPT !.tzinfo = <<0>>]
    ELSE dt

\* line 60: draw_date.astimezone(timezone.utc)
AsTimezoneUTC(dt) ==
    LET m == WallMinutes(dt) - dt.tzinfo[1]
    IN [year |-> m \div (HoursPerYear * 60),
        hour |-> (m \div 60) % HoursPerYear,
        minute |-> m % 60,
        second |-> dt.second,
        microsecond |-> dt.microsecond,
        tzinfo |-> <<0>>]

\* mutant: a date equal to now passes
NotAfterExclusive(a, b) ==
    LET ia == WallMinutes(a) - a.tzinfo[1]
        ib == WallMinutes(b) - b.tzinfo[1]
    IN \/ ia < ib
       \/ ia = ib /\ a.second < b.second
       \/ ia = ib /\ a.second = b.second /\ a.microsecond < b.microsecond

\* a <= b of two aware datetimes: their instants are compared
NotAfter(a, b) ==
    LET ia == WallMinutes(a) - a.tzinfo[1]
        ib == WallMinutes(b) - b.tzinfo[1]
    IN \/ ia < ib
       \/ ia = ib /\ a.second < b.second
       \/ ia = ib /\ a.second = b.second /\ a.microsecond <= b.microsecond

ValueError(message) == [kind |-> "ValueError", message |-> message]

\* lines 62-71: the three checks, in their order, and the return
Validated(utc, now) ==
    IF NotAfter(utc, now)
    THEN ValueError("drawDate must be in the future")
    ELSE IF utc.year # now.year
    THEN ValueError("drawDate must be in the current year")
    ELSE IF utc.minute # 0 \/ utc.second # 0
    THEN ValueError("drawDate must be at exact hour")
    ELSE [kind |-> "value", value |-> <<utc>>]

\* lines 51-60
ToUTC(dt, language) == AsTimezoneUTC(WithTimezone(dt, language))

normalize_and_validate_draw_date(date, language, now) ==
    IF date = <<>>
    THEN [kind |-> "value", value |-> <<>>]
    ELSE Validated(ToUTC(date[1], language), now)

\* nothing is stored while a single call is followed
ScheduleOff ==
    /\ sLanguage = [d \in DrawIds |-> "none"]
    /\ sDrawDate = [d \in DrawIds |-> <<>>]

\* one call, with any date, language and call time
InitNormalize ==
    /\ MainIdle
    /\ MatchOff
    /\ EmailOff
    /\ ScheduleOff
    /\ AuthOff
    /\ ProcOff
    /\ dPc = "call"
    /\ dNow \in NowInputs
    /\ dDate \in OptionalDateInputs
    /\ dLanguage \in LanguageInputs
    /\ dUtc = <<>>
    /\ dOut = [kind |-> "none"]

NormalizeCall ==
    /\ dPc = "call"
    /\ dPc' = "done"
    /\ dUtc' = IF dDate = <<>> THEN <<>> ELSE <<ToUTC(dDate[1], dLanguage)>>
    /\ dOut' = normalize_and_validate_draw_date(dDate, dLanguage, dNow)
    /\ UNCHANGED <<dateRest, dNow, dDate, dLanguage, sLanguage, sDrawDate>>

SpecNormalize == InitNormalize /\ [][NormalizeCall]_vars

\* ------------------------------------------- draw creation and schedule
\* DynamicDrawCreate.validate_language: TR or EN in any case, stored in
\* upper case
validate_language(v) ==
    IF Upper(v) \in {"TR", "EN"}
    THEN [kind |-> "value", value |-> Upper(v)]
    ELSE ValueError("language must be either 'TR' or 'EN'")

CreateLanguageInputs == LanguageInputs \cup {"DE"}

InitSchedule ==
    /\ MainIdle
    /\ MatchOff
    /\ EmailOff
    /\ ScheduleOff
    /\ AuthOff
    /\ ProcOff
    /\ dPc = "off"
    /\ dNow \in NowInputs
    /\ dDate = <<>>
    /\ dLanguage = "none"
    /\ dUtc = <<>>
    /\ dOut = [kind |-> "none"]

\* time passes between the requests
ScheduleTick ==
    /\ \E now \in NowInputs :
          /\ ~NotAfter(now, dNow)
          /\ dNow' = now
    /\ UNCHANGED <<dateRest, dPc, dDate, dLanguage, dUtc, dOut, sLanguage, sDrawDate>>

\* a dynamic draw is created: the request is validated by DynamicDrawCreate
\* and the draw stored with the validated language and draw_date; a request
\* that fails validation stores nothing
CreateDynamicDraw(d) ==
    /\ sLanguage[d] = "none"
    /\ \E v \in CreateLanguageInputs, date \in OptionalDateInputs :
          LET language == validate_language(v)
              normalized == normalize_and_validate_draw_date(date, language.value, dNow)
          IN /\ language.kind = "value"
             /\ normalized.kind = "value"
             /\ sLanguage' = [sLanguage EXCEPT ![d] = language.value]
             /\ sDrawDate' = [sDrawDate EXCEPT ![d] = normalized.value]
    /\ UNCHANGED <<dateRest, dPc, dNow, dDate, dLanguage, dUtc, dOut>>

\* the schedule of a draw is updated: the endpoint normalizes the date with
\* the draw's language and stores it
UpdateSchedule(d) ==
    /\ sLanguage[d] # "none"
    /\ \E date \in OptionalDateInputs :
          LET normalized == normalize_and_validate_draw_date(date, sLanguage[d], dNow)
          IN /\ normalized.kind = "value"
             /\ sDrawDate' = [sDrawDate EXCEPT ![d] = normalized.value]
    /\ UNCHANGED <<dateRest, dPc, dNow, dDate, dLanguage, dUtc, dOut, sLanguage>>

NextSchedule ==
    \/ ScheduleTick
    \/ \E d \in DrawIds : CreateDynamicDraw(d)
    \/ \E d \in DrawIds : UpdateSchedule(d)

SpecSchedule == InitSchedule /\ [][NextSchedule]_vars

\* --------------------------------------------- normalizer properties
\* a is strictly later than b, both read in UTC field by field
StrictlyLater(a, b) ==
    LET fa == <<a.year, a.hour, a.minute, a.second, a.microsecond>>
        fb == <<b.year, b.hour, b.minute, b.second, b.microsecond>>
    IN \E k \in 1..5 : fa[k] > fb[k] /\ \A j \in 1..(k - 1) : fa[j] = fb[j]

\* C16: the call raises a validation error when the UTC instant of the date
\* is not strictly later than now, when its UTC year is not the current UTC
\* year, and when its UTC minute or second is not zero; it returns a value
\* exactly when none of the three holds.
C16_RejectsPastOtherYearOffHour ==
    (dPc = "done" /\ dDate # <<>>)
    => /\ dOut.kind \in {"value", "ValueError"}
       /\ (dOut.kind = "value")
          <=> (/\ StrictlyLater(dUtc[1], dNow)
               /\ dUtc[1].year = dNow.year
               /\ dUtc[1].minute = 0
               /\ dUtc[1].second = 0)

\* C16 witness: a date equal to the call time was rejected.
C16_EqualToNowRejected ==
    /\ dPc = "done"
    /\ dDate # <<>>
    /\ dUtc = <<dNow>>
    /\ dOut.kind = "ValueError"

\* C17: a date without offset is read as Europe/Istanbul time (three hours
\* ahead of UTC) for language TR and as UTC for EN, a date with an offset
\* keeps it, and the converted value is the same instant with tzinfo UTC; it
\* is the value returned when the date is accepted.
C17_TimezonePolicy ==
    (dPc = "done" /\ dDate # <<>>)
    => LET dt == dDate[1]
           u == dUtc[1]
           offset == IF dt.tzinfo # <<>> THEN dt.tzinfo[1]
                     ELSE IF dLanguage \in {"TR", "tr"} THEN 180 ELSE 0
       IN /\ u.tzinfo = <<0>>
          /\ u.hour \in 0..(HoursPerYear - 1)
          /\ u.minute \in 0..59
          /\ (u.year * HoursPerYear + u.hour) * 60 + u.minute + offset
             = (dt.year * HoursPerYear + dt.hour) * 60 + dt.minute
          /\ u.second = dt.second
          /\ u.microsecond = dt.microsecond
          /\ dOut.kind = "value" => dOut.value = <<u>>

\* C17 witness: 13:00 without offset for a TR draw was returned as 10:00 UTC.
C17_IstanbulThirteenIsTenUTC ==
    /\ dPc = "done"
    /\ dDate # <<>>
    /\ dDate[1].tzinfo = <<>>
    /\ dLanguage = "TR"
    /\ dDate[1].hour = 13
    /\ dDate[1].minute = 0
    /\ dOut.kind = "value"
    /\ dOut.value[1].hour = 10
    /\ dOut.value[1].minute = 0

MaxCalls == 4
MaxAuthNow == 3

\* token lifetimes in hours: settings.access_token_expire_minutes, the
\* hours=1 of the reset token, settings.refresh_token_expire_days
AccessLife == 1
ResetLife == 1
RefreshLife == 2

Emails == {"a@example.com", "b@example.com"}
Passwords == {"Password1!", "Password2!"}
ForgotLanguages == {"tr", "en"}

\* settings.secret_key, and a key that is not the service's
SecretKey == "secret_key"
OtherKey == "other_key"

\* jwt.encode: the payload under the signature of key
jwt_encode(payload, key) ==
    [wellformed |-> TRUE, payload |-> payload, key |-> key]

\* jwt.decode: <<payload>>, or <<>> where it raises InvalidTokenError (not a
\* JWT, signature of another key, exp reached)
jwt_decode(token, key, now) ==
    IF ~token.wellformed THEN <<>>
    ELSE IF token.key # key THEN <<>>
    ELSE IF token.payload.exp <= now THEN <<>>
    ELSE <<token.payload>>

\* data is the claims passed in: sub, and type (<<>> when not passed)
create_access_token(data, expires_delta, now) ==
    LET expire == IF expires_delta # <<>>
                  THEN now + expires_delta[1]
                  ELSE now + AccessLife
    IN jwt_encode([sub |-> data.sub, type |-> data.type, exp |-> expire], SecretKey)

\* mutant: the decoder without the check of the signature
decode_access_token_unverified(token, now) == jwt_decode(token, token.key, now)

decode_access_token(token, now) == jwt_decode(token, SecretKey, now)

create_refresh_token(data, now) ==
    jwt_encode([sub |-> data.sub, type |-> <<"refresh">>, exp |-> now + RefreshLife],
               SecretKey)

\* mutant: the decoder without the check of the type claim
decode_refresh_token_untyped(token, now) ==
    jwt_decode(token, SecretKey, now)

\* <<payload>>, or <<>> for None
decode_refresh_token(token, now) ==
    LET decoded == jwt_decode(token, SecretKey, now)
    IN IF decoded = <<>> THEN <<>>
       ELSE IF decoded[1].type # <<"refresh">> THEN <<>>
       ELSE decoded

\* a string that is not a JWT
Malformed ==
    [wellformed |-> FALSE, payload |-> [sub |-> <<>>, type |-> <<>>, exp |-> 0],
     key |-> "none"]

\* refresh-typed and reset-typed payloads that never expire, under a key
\* that is not the service's
Forged ==
    {jwt_encode([sub |-> <<e>>, type |-> <<t>>,
                 exp |-> MaxAuthNow + RefreshLife + 1], OtherKey) :
         e \in Emails, t \in {"refresh", "reset"}}

\* what a client can present as a token: anything the service signed, or
\* something it made itself
Presentable == aIssued \cup Forged \cup {Malformed}

hash_password(password) == <<"hashed", password>>

verify_password(user, password) == user.password = hash_password(password)

\* mutant: the lookup finds nobody
UserByEmailNone(users, email) == <<>>

\* db.query(User).filter(User.email == email).first(): <<user>>, <<>> for None
UserByEmail(users, email) ==
    LET found == {u \in users : u.email = email}
    IN IF found = {} THEN <<>>
       ELSE <<CHOOSE u \in found : \A v \in found : u.id <= v.id>>

HTTPException(status_code, detail) ==
    [status |-> status_code, detail |-> detail, message |-> "", tokens |-> <<>>,
     user |-> <<>>]

TokenResponse(status_code, access_token, refresh, user) ==
    [status |-> status_code, detail |-> "", message |-> "",
     tokens |-> <<access_token, refresh>>, user |-> <<user>>]

MessageResponse(message) ==
    [status |-> 200, detail |-> "", message |-> message, tokens |-> <<>>,
     user |-> <<>>]

AuthRequest(op, email, password, token) ==
    [op |-> op, email |-> email, password |-> password, token |-> token]

\* a fresh database, the service reachable
InitAuth ==
    /\ MainIdle
    /\ MatchOff
    /\ EmailOff
    /\ DateOff
    /\ AuthOff
    /\ ProcOff

\* time passes between the requests
AuthTick ==
    /\ aNow < MaxAuthNow
    /\ aNow' = aNow + 1
    /\ UNCHANGED <<authRest, aUsers, aNextId, aIssued, aOutbox, aRequest,
                   aResponse, aCalls>>

\* POST /register
Register ==
    /\ aCalls < MaxCalls
    /\ \E email \in Emails, password \in Passwords :
          LET existing_user == UserByEmail(aUsers, email)
              new_user == [id |-> aNextId, email |-> email,
                           password |-> hash_password(password)]
              data == [sub |-> <<new_user.email>>, type |-> <<>>]
              access_token == create_access_token(data, <<>>, aNow)
              refresh == create_refresh_token(data, aNow)
          IN /\ aRequest' = AuthRequest("register", <<email>>, <<password>>, <<>>)
             /\ IF existing_user # <<>>
                THEN /\ aResponse' = HTTPException(400, "Email already registered")
                     /\ UNCHANGED <<aUsers, aNextId, aIssued>>
                ELSE /\ aUsers' = aUsers \cup {new_user}
                     /\ aNextId' = aNextId + 1
                     /\ aIssued' = aIssued \cup {access_token, refresh}
                     /\ aResponse' = TokenResponse(201, access_token, refresh, new_user)
    /\ aCalls' = aCalls + 1
    /\ UNCHANGED <<authRest, aNow, aOutbox>>

\* POST /login
Login ==
    /\ aCalls < MaxCalls
    /\ \E email \in Emails, password \in Passwords :
          LET user == UserByEmail(aUsers, email)
          IN /\ aRequest' = AuthRequest("login", <<email>>, <<password>>, <<>>)
             /\ IF user = <<>> \/ ~verify_password(user[1], password)
                THEN /\ aResponse' = HTTPException(401, "Incorrect email or password")
                     /\ UNCHANGED aIssued
                ELSE LET data == [sub |-> <<user[1].email>>, type |-> <<>>]
                         access_token == create_access_token(data, <<>>, aNow)
                         refresh == create_refresh_token(data, aNow)
                     IN /\ aIssued' = aIssued \cup {access_token, refresh}
                        /\ aResponse' = TokenResponse(200, access_token, refresh, user[1])
    /\ aCalls' = aCalls + 1
    /\ UNCHANGED <<authRest, aNow, aUsers, aNextId, aOutbox>>

\* POST /refresh
Refresh ==
    /\ aCalls < MaxCalls
    /\ \E token \in Presentable :
          LET payload == decode_refresh_token(token, aNow)
              email == IF payload = <<>> THEN <<>> ELSE payload[1].sub
              user == IF email = <<>> THEN <<>> ELSE UserByEmail(aUsers, email[1])
          IN /\ aRequest' = AuthRequest("refresh", <<>>, <<>>, <<token>>)
             /\ IF payload = <<>>
                THEN /\ aResponse' = HTTPException(401, "Invalid refresh token")
                     /\ UNCHANGED aIssued
                ELSE IF email = <<>>
                THEN /\ aResponse' = HTTPException(401, "Invalid refresh token")
                     /\ UNCHANGED aIssued
                ELSE IF user = <<>>
                THEN /\ aResponse' = HTTPException(404, "User not found")
                     /\ UNCHANGED aIssued
                ELSE LET data == [sub |-> <<user[1].email>>, type |-> <<>>]
                         access_token == create_access_token(data, <<>>, aNow)
                         refresh == create_refresh_token(data, aNow)
                     IN /\ aIssued' = aIssued \cup {access_token, refresh}
                        /\ aResponse' = TokenResponse(200, access_token, refresh, user[1])
    /\ aCalls' = aCalls + 1
    /\ UNCHANGED <<authRest, aNow, aUsers, aNextId, aOutbox>>

\* mutant: an unknown email is answered with an error
ForgotUnknownNotFound == HTTPException(404, "User not found")

\* line 160: the return for an email of no user
ForgotUnknown ==
    MessageResponse("If email exists, password reset instructions have been sent.")

\* line 170: the return after the reset email has been handed to the queue
ForgotQueued ==
    MessageResponse("If email exists, password reset instructions have been sent.")

\* POST /forgot-password
ForgotPassword ==
    /\ aCalls < MaxCalls
    /\ \E email \in Emails, language \in ForgotLanguages :
          LET user == UserByEmail(aUsers, email)
          IN /\ aRequest' = AuthRequest("forgot-password", <<email>>, <<>>, <<>>)
             /\ aResponse' = IF user = <<>> THEN ForgotUnknown ELSE ForgotQueued
             /\ IF user = <<>>
                THEN UNCHANGED <<aIssued, aOutbox>>
                ELSE LET reset_token ==
                             create_access_token([sub |-> <<user[1].email>>,
                                                  type |-> <<"reset">>],
                                                 <<ResetLife>>, aNow)
                     IN /\ aIssued' = aIssued \cup {reset_token}
                        /\ aOutbox' = aOutbox \cup
                               {[email |-> user[1].email, token |-> reset_token,
                                 language |-> language]}
    /\ aCalls' = aCalls + 1
    /\ UNCHANGED <<authRest, aNow, aUsers, aNextId>>

\* POST /reset-password
ResetPassword ==
    /\ aCalls < MaxCalls
    /\ \E token \in Presentable, new_password \in Passwords :
          LET payload == decode_access_token(token, aNow)
              email == IF payload = <<>> THEN <<>> ELSE payload[1].sub
              user == IF email = <<>> THEN <<>> ELSE UserByEmail(aUsers, email[1])
          IN /\ aRequest' = AuthRequest("reset-password", <<>>, <<new_password>>, <<token>>)
             /\ IF payload = <<>> \/ payload[1].type # <<"reset">>
                THEN /\ aResponse' = HTTPException(400, "Invalid or expired token")
                     /\ UNCHANGED aUsers
                ELSE IF email = <<>>
                THEN /\ aResponse' = HTTPException(400, "Invalid token")
                     /\ UNCHANGED aUsers
                ELSE IF user = <<>>
                THEN /\ aResponse' = HTTPException(404, "User not found")
                     /\ UNCHANGED aUsers
                ELSE /\ aUsers' = (aUsers \ {user[1]}) \cup
                            {[user[1] EXCEPT !.password = hash_password(new_password)]}
                     /\ aResponse' =
                            MessageResponse("Password has been reset successfully")
    /\ aCalls' = aCalls + 1
    /\ UNCHANGED <<authRest, aNow, aNextId, aIssued, aOutbox>>

NextAuth ==
    \/ AuthTick
    \/ Register
    \/ Login
    \/ Refresh
    \/ ForgotPassword
    \/ ResetPassword

SpecAuth == InitAuth /\ [][NextAuth]_vars

\* ------------------------------------------------ authentication properties
\* C19: a register call with an email that already belongs to a user answers
\* 400 'Email already registered', adds no user and signs no token; and at
\* every moment no two user rows have the same email.
C19_DuplicateEmailRejected ==
    /\ [](\A u, v \in aUsers : u.email = v.email => u = v)
    /\ [][(/\ aCalls' = aCalls + 1
           /\ aRequest'.op = "register"
           /\ \E u \in aUsers : <<u.email>> = aRequest'.email)
          => /\ aResponse'.status = 400
             /\ aResponse'.detail = "Email already registered"
             /\ aResponse'.tokens = <<>>
             /\ aUsers' = aUsers
             /\ aIssued' = aIssued]_vars

\* a second registration of a registered email was refused
C19_SecondRegistrationRefused ==
    /\ aRequest.op = "register"
    /\ aResponse.status = 400
    /\ \E u \in aUsers : <<u.email>> = aRequest.email

MissingDraw == NumDraws + 1

\* an exception: its class and the classes it is an instance of
Exc(name, bases) == [name |-> name, bases |-> bases \cup {name, "Exception"}]

\* execute_draw returned its results
Returned == [name |-> "ok", bases |-> {}]

\* the exception of the given class, derived from DrawServiceException or
\* directly from Exception
Raised(name) == {Exc(name, {"DrawServiceException"}), Exc(name, {})}

\* what may go wrong in execute_draw besides its three named errors: another
\* error of the service, or an error of the database
OtherErrors ==
    {Exc("DrawServiceException", {}),
     Exc("DrawExecutionError", {"DrawServiceException"}),
     Exc("OperationalError", {})}

\* the outcomes of service.execute_draw(draw_id): step 1 for a missing draw,
\* steps 2 and 3 read from the committed state
ExecuteOutcomes(d) ==
    IF d \notin DrawIds THEN Raised("DrawNotFoundError") \cup OtherErrors
    ELSE IF ExecuteOutcome(d) = "ok" THEN {Returned} \cup OtherErrors
    ELSE Raised(ExecuteOutcome(d)) \cup OtherErrors

\* mutant: the chain without its last clause
ExceptClausesWithoutCatchAll ==
    <<"DrawNotFoundError", "InsufficientParticipantsError",
      "DrawAlreadyCompletedError", "DrawServiceException">>

\* the except clauses of process_draw, in order
ExceptClauses ==
    <<"DrawNotFoundError", "InsufficientParticipantsError",
      "DrawAlreadyCompletedError", "DrawServiceException", "Exception">>

\* the clause that handles exc: the first one exc is an instance of, "none"
\* when the exception leaves process_draw
Caught(exc) ==
    LET hits == {k \in DOMAIN ExceptClauses : ExceptClauses[k] \in exc.bases}
    IN IF hits = {} THEN "none"
       ELSE ExceptClauses[CHOOSE k \in hits : \A l \in hits : k <= l]

\* the exception leaves process_draw: finally closes the session, which
\* discards its pending writes
Propagate(i) ==
    tasks' = [tasks EXCEPT ![i] = [@ EXCEPT !.pc = "done", !.pend = <<>>,
                                              !.ret = "raised"]]

\* one call of process_draw, for a draw in any state or for no draw
InitProcess ==
    /\ MatchOff
    /\ EmailOff
    /\ DateOff
    /\ AuthOff
    /\ ProcOff
    /\ clock = 0
    /\ status \in [DrawIds -> DrawStatus]
    /\ draw_date = [d \in DrawIds |-> NoDate]
    /\ participants \in
           {f \in [DrawIds -> {InitParticipants, PartIds}] :
                \A d \in DrawIds : status[d] = COMPLETED => f[d] = PartIds}
    /\ nextPid = [d \in DrawIds |-> Cardinality(participants[d]) + 1]
    /\ results \in
           {r \in [DrawIds -> {<<>>} \cup {<<m>> : m \in Derangements(PartIds)}] :
                \A d \in DrawIds : (status[d] = COMPLETED) <=> (r[d] # <<>>)}
    /\ \E d \in DrawIds \cup {MissingDraw} : tasks = <<NewTask(d, "manual")>>
    /\ swPc = "idle"
    /\ swNow = 0
    /\ swSel = NoRows
    /\ swLoaded = NoRows
    /\ swExpired = FALSE
    /\ swTodo = <<>>
    /\ processed_draws = <<>>
    /\ skipped_draws = <<>>
    /\ swRet = "none"

\* lines 136-138 and the except clauses: execute_draw returns or raises
ProcExecute ==
    /\ tasks[1].pc = "queued"
    /\ \E out \in ExecuteOutcomes(tasks[1].draw) :
          /\ pExc' = out
          /\ IF out = Returned
             THEN \E m \in Derangements(participants[tasks[1].draw]) :
                      tasks' = [tasks EXCEPT ![1] = [@ EXCEPT !.pc = "commit",
                                                               !.pend = m]]
             ELSE IF Caught(out) = "none"
             THEN Propagate(1)
             ELSE HandleError(1, ErrorType(Caught(out)))
    /\ UNCHANGED <<procRest, status, results>>

NextProcess ==
    \/ ProcExecute
    \/ PDCommit(1)
    \/ PDFail(1)

SpecProcess == InitProcess /\ [][NextProcess]_vars

\* ------------------------------------------------ process_draw properties
\* C22: process_draw always returns a structured result and never raises.
\* When execute_draw raised, or the commit did, the session is rolled back,
\* nothing is committed, and the result has status error with error_type
\* not_found for DrawNotFoundError, insufficient_participants for
\* InsufficientParticipantsError, already_completed for
\* DrawAlreadyCompletedError, service_error for any other
\* DrawServiceException and unexpected for any other exception.
C22_ProcessDrawNeverRaises ==
    /\ [](tasks[1].pc = "done" =>
            LET ret == tasks[1].ret
                exc == pExc
            IN /\ ret \in {"success", "not_found", "insufficient_participants",
                           "already_completed", "service_error", "unexpected"}
               /\ ret # "success" => tasks[1].pend = <<>>
               /\ exc.name = "DrawNotFoundError" => ret = "not_found"
               /\ exc.name = "InsufficientParticipantsError" =>
                      ret = "insufficient_participants"
               /\ exc.name = "DrawAlreadyCompletedError" => ret = "already_completed"
               /\ (/\ exc.name \notin {"DrawNotFoundError", "ok",
                                       "InsufficientParticipantsError",
                                       "DrawAlreadyCompletedError"}
                   /\ "DrawServiceException" \in exc.bases) => ret = "service_error"
               /\ (/\ exc.name \notin {"DrawNotFoundError", "ok",
                                       "InsufficientParticipantsError",
                                       "DrawAlreadyCompletedError"}
                   /\ "DrawServiceException" \notin exc.bases) => ret = "unexpected"
               /\ exc = Returned => ret \in {"success", "unexpected"})
    /\ [][(tasks[1].pc # "done" /\ tasks'[1].pc = "done" /\ tasks'[1].ret # "success")
          => dbVars' = dbVars]_vars

\* execute_draw ended with an error of the database, and process_draw
\* returned the unexpected error
C22_UnexpectedReturned ==
    /\ tasks # <<>>
    /\ tasks[1].pc = "done"
    /\ pExc.name = "OperationalError"
    /\ tasks[1].ret = "unexpected"

\* ------------------------------------------------ password reset properties
\* C26: a reset-password call changes a stored password only when the
\* presented token bears the service's signature, has not expired, has type
\* reset and names an existing user, and then only that user's password; an
\* access token or a refresh token changes nothing, and when the answer is
\* 400 or 404 every user row is as it was.
C26_ResetOnlyWithResetToken ==
    [][(aCalls' = aCalls + 1 /\ aRequest'.op = "reset-password")
       => LET token == aRequest'.token[1]
              valid == /\ token.wellformed
                       /\ token.key = SecretKey
                       /\ token.payload.exp > aNow
                       /\ token.payload.type = <<"reset">>
                       /\ \E u \in aUsers : <<u.email>> = token.payload.sub
          IN /\ aUsers' # aUsers => valid
             /\ token.payload.type # <<"reset">> => aUsers' = aUsers
             /\ aResponse'.status \in {400, 404} => aUsers' = aUsers
             /\ aResponse'.status \in {200, 400, 404}
             /\ aResponse'.status = 200 =>
                    /\ valid
                    /\ \A u \in aUsers :
                           \E v \in aUsers' :
                               /\ v.id = u.id
                               /\ v.email = u.email
                               /\ v.password =
                                      IF <<u.email>> = token.payload.sub
                                      THEN hash_password(aRequest'.password[1])
                                      ELSE u.password
                    /\ Cardinality(aUsers') = Cardinality(aUsers)]_vars

\* a reset token sent for a forgotten password was presented and the user's
\* password is the new one
C26_PasswordReset ==
    /\ aRequest.op = "reset-password"
    /\ aResponse.status = 200
    /\ \E u \in aUsers : /\ <<u.email>> = aRequest.token[1].payload.sub
                         /\ u.password = hash_password(aRequest.password[1])
    /\ \E task \in aOutbox : task.token = aRequest.token[1]

====
